---------------------------- MODULE Spec2Model ----------------------------
(***************************************************************************)
(* PCGrad weighting (torchjd/aggregation/pcgrad.py).                       *)
(*                                                                         *)
(* The state machine follows _PCGradWeighting._compute_from_gramian one    *)
(* loop step at a time: the draw of a permutation in the outer loop, one   *)
(* body of the inner loop, the accumulation into weights, the return.      *)
(* Two entries are modelled: PCGrad()(matrix), which goes through forward, *)
(* and a direct call of the static method _compute_from_gramian(gramian).  *)
(*                                                                         *)
(* Tensor elements are modelled as exact rationals <<n, d>> in lowest      *)
(* terms (d > 0), extended with the IEEE special values the code can       *)
(* produce by dividing by a zero diagonal entry: <<1, 0>> is +inf,         *)
(* <<-1, 0>> is -inf and <<0, 0>> is NaN.  The rounding of the tensor's    *)
(* dtype is not modelled.  Indices are 1-based here: the code's index k    *)
(* is k + 1 in the model.                                                  *)
(*                                                                         *)
(* Spec takes inputs of every size up to MaxN; SpecSmall and SpecThree     *)
(* take the inputs of one or two, and of three, gradients, for the         *)
(* properties that are about those sizes.                                  *)
(***************************************************************************)
EXTENDS Integers, Sequences, FiniteSets, TLC

VARIABLES matrix, gramian, pc, i, permutation, pos, current_weights, weights, out

vars == <<matrix, gramian, pc, i, permutation, pos, current_weights, weights, out>>

---------------------------------------------------------------------------
(* Bounds of the model *)

\* largest number of task gradients (rows)
MaxN == 3
\* largest diagonal entry of a Gramian passed directly
MaxDiag == 2
\* largest absolute value of a negative diagonal entry of a tensor passed directly
MaxNegDiag == 1
\* largest absolute value of an off-diagonal entry of a Gramian passed directly
MaxOff == 1
\* largest absolute value of a component of a gradient row of a matrix
MaxVal == 1

---------------------------------------------------------------------------
(* Element arithmetic: extended rationals *)

Abs(n) == IF n < 0 THEN -n ELSE n

Sgn(n) == IF n < 0 THEN -1 ELSE IF n > 0 THEN 1 ELSE 0

RECURSIVE GCD(_, _)
GCD(a, b) == IF b = 0 THEN a ELSE GCD(b, a % b)

\* the element n/d; d = 0 gives +inf, -inf or NaN by the sign of n
Mk(n, d) ==
    IF d = 0 THEN <<Sgn(n), 0>>
    ELSE LET g == GCD(Abs(n), Abs(d))
             s == Sgn(d)
         IN  <<(s * n) \div g, (s * d) \div g>>

\* the integer n as an element
Whole(n) == <<n, 1>>

\* the result of inf - inf and of 0 * inf
NaN == <<0, 0>>

IsFinite(x) == x[2] # 0

Neg(x) == <<-x[1], x[2]>>

Add(x, y) ==
    IF x[2] = 0 /\ y[2] = 0
    THEN (IF x = y THEN x ELSE NaN)
    ELSE Mk(x[1] * y[2] + y[1] * x[2], x[2] * y[2])

Sub(x, y) == Add(x, Neg(y))

Mul(x, y) == Mk(x[1] * y[1], x[2] * y[2])

\* 1/y: 1/0 = +inf, 1/inf = 0, 1/NaN = NaN
Recip(y) == Mk(y[2], y[1])

Div(x, y) == Mul(x, Recip(y))

\* x < 0.0 (false for NaN)
Lt0(x) == x[1] < 0

\* x >= 0.0 (false for NaN)
Ge0(x) == x[1] > 0 \/ (x[1] = 0 /\ x[2] # 0)

\* x <= y on finite elements
Le(x, y) == x[1] * y[2] <= y[1] * x[2]

---------------------------------------------------------------------------
(* Tensor helpers *)

\* torch.zeros(n)
zeros(n) == [k \in 1..n |-> Whole(0)]

\* the k-th standard basis vector: zeros(n) with [k] = 1.0
basis(n, k) == [m \in 1..n |-> IF m = k THEN Whole(1) ELSE Whole(0)]

RECURSIVE DotUpTo(_, _, _)
DotUpTo(u, v, n) ==
    IF n = 0 THEN Whole(0) ELSE Add(DotUpTo(u, v, n - 1), Mul(u[n], v[n]))

\* u @ v for two 1-D tensors of the same length
Dot(u, v) == DotUpTo(u, v, Len(v))

\* u + v, elementwise
VAdd(u, v) == [k \in 1..Len(u) |-> Add(u[k], v[k])]

\* the permutations of 1..n (torch.randperm(n))
Perms(n) == {p \in [1..n -> 1..n] : \A a, b \in 1..n : p[a] = p[b] => a = b}


---------------------------------------------------------------------------
(* Inputs *)

\* the rows a matrix is built from: 2 components, each in -MaxVal..MaxVal
Rows == {<<Whole(a), Whole(b)>> : a, b \in -MaxVal..MaxVal}

\* the matrix of the docstring's example
ExampleJ == << <<Whole(-4), Whole(1), Whole(1)>>, <<Whole(6), Whole(1), Whole(1)>> >>

\* the matrices of n rows
MatricesOf(n) == [1..n -> Rows]

Pairs(n) == {pr \in (1..n) \X (1..n) : pr[1] < pr[2]}

\* the symmetric n x n matrix with diagonal d and off-diagonal entries o
Sym(n, d, o) ==
    [a \in 1..n |-> [b \in 1..n |->
        IF a = b THEN Whole(d[a])
        ELSE IF a < b THEN Whole(o[<<a, b>>]) ELSE Whole(o[<<b, a>>])]]

\* the symmetric n x n tensors with a diagonal >= 0
SymGramiansOf(n) ==
    {Sym(n, d, o) : d \in [1..n -> 0..MaxDiag], o \in [Pairs(n) -> -MaxOff..MaxOff]}

\* the 1 x 1 tensors with a negative entry
NegativeEntry == {<< <<Whole(-v)>> >> : v \in 1..MaxNegDiag}

\* the n x m tensors with m # n, every entry v
NonSquareOf(n) ==
    {[a \in 1..n |-> [b \in 1..m |-> Whole(v)]] :
        m \in (1..MaxN) \ {n}, v \in -MaxOff..MaxOff}

\* the matrices given to forward, for the numbers of rows in sizes
MatrixInputs(sizes) ==
    UNION {MatricesOf(n) : n \in sizes} \cup (IF Len(ExampleJ) \in sizes THEN {ExampleJ} ELSE {})

\* the tensors given to _compute_from_gramian directly
GramianInputs(sizes) ==
    UNION {SymGramiansOf(n) \cup NonSquareOf(n) : n \in sizes}
        \cup (IF 1 \in sizes THEN NegativeEntry ELSE {})

---------------------------------------------------------------------------
(* Pure steps of the code *)

\* compute_gramian(matrix): matrix @ matrix.T
compute_gramian(m) == [a \in 1..Len(m) |-> [b \in 1..Len(m) |-> Dot(m[a], m[b])]]

\* gramian.shape[0]
dimension == Len(gramian)

\* variant: the gradient's own index is not skipped
is_self_never(j, k) == FALSE

\* j == i, the test that skips the gradient's own index
is_self(j, k) == j = k

\* variant: a product that stops at the shorter operand and rejects only short rows
size_mismatch_short(u, v) == Len(u) < Len(v)

\* the sizes gramian[j] @ current_weights rejects
size_mismatch(u, v) == Len(u) # Len(v)

\* gramian[j] @ current_weights
inner_product(g, cw, j) == Dot(g[j], cw)

\* variant: the test of the conflict inverted
conflict_inverted(ip) == ip[1] > 0

\* inner_product < 0.0
conflict(ip) == Lt0(ip)

\* variant: the division by gramian[i, i] instead of gramian[j, j]
correct_by_own_norm(g, cw, j, ip) == [cw EXCEPT ![j] = Sub(@, Div(ip, g[i][i]))]

\* variant: the correction added instead of subtracted
correct_add(g, cw, j, ip) == [cw EXCEPT ![j] = Add(@, Div(ip, g[j][j]))]

\* variant: a zero diagonal entry is guarded, the correction left out
correct_guarded(g, cw, j, ip) ==
    IF g[j][j][1] = 0 THEN cw ELSE [cw EXCEPT ![j] = Sub(@, Div(ip, g[j][j]))]

\* current_weights[j] -= inner_product / (gramian[j, j])
correct(g, cw, j, ip) == [cw EXCEPT ![j] = Sub(@, Div(ip, g[j][j]))]

\* variant: weights overwritten by current_weights
accumulate_overwrite(w, cw) == cw

\* variant: the inner product taken with the original gradient, not with g_own^{PC}
inner_body_unprojected(g, cw, own, j) ==
    IF is_self(j, own) THEN cw
    ELSE IF conflict(g[j][own]) THEN correct(g, cw, j, g[j][own])
    ELSE cw

\* one body of the inner loop of outer iteration own, for the index j:
\* current_weights afterwards
inner_body(g, cw, own, j) ==
    IF is_self(j, own) THEN cw
    ELSE LET ip == inner_product(g, cw, j)
         IN  IF conflict(ip) THEN correct(g, cw, j, ip) ELSE cw

\* weights + current_weights
accumulate(w, cw) == VAdd(w, cw)

RECURSIVE CombineUpTo(_, _, _, _)
CombineUpTo(w, m, c, n) ==
    IF n = 0 THEN Whole(0) ELSE Add(CombineUpTo(w, m, c, n - 1), Mul(w[n], m[n][c]))

\* weights @ matrix
combine(w, m) == [c \in 1..Len(m[1]) |-> CombineUpTo(w, m, c, Len(m))]

RECURSIVE inner_loop(_, _, _, _, _)
\* current_weights after the first n bodies of the inner loop over permutation p
inner_loop(g, cw, own, p, n) ==
    IF n = 0 THEN cw ELSE inner_body(g, inner_loop(g, cw, own, p, n - 1), own, p[n])

RECURSIVE outer_loop(_, _, _)
\* weights after the first n outer iterations, ps[k] the permutation drawn in the k-th
outer_loop(g, ps, n) ==
    IF n = 0 THEN zeros(Len(g))
    ELSE accumulate(outer_loop(g, ps, n - 1),
                    inner_loop(g, basis(Len(g), n), n, ps[n], Len(g)))

\* _compute_from_gramian(g) as a function of the permutations drawn
compute_from_gramian(g, ps) == outer_loop(g, ps, Len(g))

---------------------------------------------------------------------------
(* The state machine *)

None == <<>>

\* a call of PCGrad()(matrix) or of _compute_from_gramian(gramian), about to start
InitOf(sizes) ==
    /\ \/ matrix \in MatrixInputs(sizes) /\ gramian = None /\ pc = "forward"
       \/ matrix = None /\ gramian \in GramianInputs(sizes) /\ pc = "call"
    /\ i = 1
    /\ permutation = None
    /\ pos = 1
    /\ current_weights = None
    /\ weights = None
    /\ out = None

\* any number of gradients up to MaxN
Init == InitOf(1..MaxN)

\* one or two gradients
InitSmall == InitOf({1, 2})

\* three gradients
InitThree == InitOf({3})

\* _PCGradWeighting.forward up to the outer loop of _compute_from_gramian
Forward ==
    /\ pc = "forward"
    /\ gramian' = compute_gramian(matrix)
    /\ weights' = zeros(Len(matrix))
    /\ i' = 1
    /\ pc' = "outer"
    /\ UNCHANGED <<matrix, permutation, pos, current_weights, out>>

\* _compute_from_gramian called directly, up to the outer loop
Call ==
    /\ pc = "call"
    /\ weights' = zeros(dimension)
    /\ i' = 1
    /\ pc' = "outer"
    /\ UNCHANGED <<matrix, gramian, permutation, pos, current_weights, out>>

\* head of an outer iteration: a fresh permutation, current_weights = e_i
DrawPermutation ==
    /\ pc = "outer"
    /\ i <= dimension
    /\ \E p \in Perms(dimension) : permutation' = p
    /\ current_weights' = basis(dimension, i)
    /\ pos' = 1
    /\ pc' = "inner"
    /\ UNCHANGED <<matrix, gramian, i, weights, out>>

\* one body of the inner loop, for j = permutation[pos]
InnerStep ==
    /\ pc = "inner"
    /\ pos <= Len(permutation)
    /\ LET j == permutation[pos] IN
         IF ~is_self(j, i) /\ size_mismatch(gramian[j], current_weights)
         THEN \* the matrix-vector product raises on mismatching sizes
              /\ pc' = "error"
              /\ UNCHANGED <<pos, current_weights>>
         ELSE /\ current_weights' = inner_body(gramian, current_weights, i, j)
              /\ pos' = pos + 1
              /\ UNCHANGED pc
    /\ UNCHANGED <<matrix, gramian, i, permutation, weights, out>>

\* end of the inner loop: weights = weights + current_weights
Accumulate ==
    /\ pc = "inner"
    /\ pos > Len(permutation)
    /\ weights' = accumulate(weights, current_weights)
    /\ i' = i + 1
    /\ pc' = "outer"
    /\ UNCHANGED <<matrix, gramian, permutation, pos, current_weights, out>>

\* end of the outer loop: return weights
Return ==
    /\ pc = "outer"
    /\ i > dimension
    /\ pc' = "returned"
    /\ UNCHANGED <<matrix, gramian, i, permutation, pos, current_weights, weights, out>>

\* the aggregator's result for a matrix: weights @ matrix
Aggregate ==
    /\ pc = "returned"
    /\ matrix # None
    /\ out' = combine(weights, matrix)
    /\ pc' = "aggregated"
    /\ UNCHANGED <<matrix, gramian, i, permutation, pos, current_weights, weights>>

Next ==
    \/ Forward
    \/ Call
    \/ DrawPermutation
    \/ InnerStep
    \/ Accumulate
    \/ Return
    \/ Aggregate

Spec == Init /\ [][Next]_vars

SpecSmall == InitSmall /\ [][Next]_vars

SpecThree == InitThree /\ [][Next]_vars

---------------------------------------------------------------------------
(* Predicates used by the properties *)

\* _compute_from_gramian has returned
Returned == pc \in {"returned", "aggregated"}

Square(g) == \A a \in 1..Len(g) : Len(g[a]) = Len(g)

Symmetric(g) == Square(g) /\ \A a, b \in 1..Len(g) : g[a][b] = g[b][a]

PosDiag(g) == \A a \in 1..Len(g) : g[a][a][1] > 0

ones(n) == [k \in 1..n |-> Whole(1)]

\* gramian = [[a, c], [c, b]] with a > 0, b > 0 and c < 0
ConflictingPair ==
    /\ dimension = 2
    /\ Symmetric(gramian)
    /\ PosDiag(gramian)
    /\ Lt0(gramian[1][2])

---------------------------------------------------------------------------
(* C1 *)

\* C1, as stated: for gramian = [[a, c], [c, b]] with a, b > 0 and c < 0 the
\* returned weights are [1 - c/b, 1 - c/a].
C1_AsStated ==
    (Returned /\ ConflictingPair) =>
        weights = << Sub(Whole(1), Div(gramian[1][2], gramian[2][2])),
                     Sub(Whole(1), Div(gramian[1][2], gramian[1][1])) >>

\* C1, amended: for gramian = [[a, c], [c, b]] with a, b > 0 and c < 0 the
\* returned weights are [1 - c/a, 1 - c/b], whatever permutations are drawn.
C1_WeightsOfPair ==
    (Returned /\ ConflictingPair) =>
        weights = << Sub(Whole(1), Div(gramian[1][2], gramian[1][1])),
                     Sub(Whole(1), Div(gramian[1][2], gramian[2][2])) >>

\* a conflicting pair with a # b has been weighted
C1_Witness ==
    /\ Returned
    /\ ConflictingPair
    /\ gramian[1][1] # gramian[2][2]
    /\ matrix = None

---------------------------------------------------------------------------
(* C3 *)

NoConflict(g) == \A a, b \in 1..Len(g) : Ge0(g[a][b])

\* C3: a symmetric Gramian whose entries are all >= 0 gives the all-ones
\* weights, whatever permutations are drawn.
C3_NoConflictAllOnes ==
    (Returned /\ Symmetric(gramian) /\ NoConflict(gramian)) =>
        weights = ones(dimension)

\* three gradients without conflict, two of them not orthogonal, have been weighted
C3_Witness ==
    /\ Returned
    /\ dimension = 3
    /\ Symmetric(gramian)
    /\ NoConflict(gramian)
    /\ gramian[1][2][1] > 0
    /\ weights = ones(3)

---------------------------------------------------------------------------
(* C6 *)

\* C6: a single gradient gets the weight [1], whatever the entry of the
\* 1 x 1 Gramian and the permutation.
C6_SingleGradient ==
    (Returned /\ dimension = 1 /\ Square(gramian)) => weights = <<Whole(1)>>

\* a 1 x 1 Gramian with a negative entry has been weighted
C6_Witness ==
    /\ Returned
    /\ dimension = 1
    /\ Square(gramian)
    /\ Lt0(gramian[1][1])
    /\ weights = <<Whole(1)>>

---------------------------------------------------------------------------
(* C7 *)

\* C7, as stated: a tensor that is not square never makes
\* _compute_from_gramian return; the call ends in an error.
C7_AsStated ==
    (gramian # None /\ ~Square(gramian)) =>
        /\ ~Returned
        /\ (pc = "error" \/ ENABLED Next)

\* C7, amended: a tensor with N >= 2 rows that is not square never makes
\* _compute_from_gramian return: the first body of the inner loop for an
\* index j # i raises, in the first outer iteration, before any accumulation.
C7_NonSquareRaises ==
    (gramian # None /\ ~Square(gramian) /\ dimension >= 2) =>
        /\ ~Returned
        /\ i = 1
        /\ pc = "inner" => \A k \in 1..(pos - 1) : permutation[k] = i
        /\ (pc = "error" \/ ENABLED Next)

\* the product has raised on a tensor that is not square
C7_Witness ==
    /\ pc = "error"
    /\ ~Square(gramian)
    /\ dimension >= 2

---------------------------------------------------------------------------
(* C2 *)

ZeroDiag(g) == \E a \in 1..Len(g) : g[a][a] = Whole(0)

AllFinite(v) == \A k \in 1..Len(v) : IsFinite(v[k])

\* C2, as stated: with a zero diagonal entry no execution returns an
\* all-finite weight vector.
C2_AsStated ==
    (Returned /\ Square(gramian) /\ ZeroDiag(gramian)) => ~AllFinite(weights)

\* the inner loop is about to find a conflict with an index j whose diagonal
\* entry is zero, and to divide by it
DividesByZero ==
    /\ pc = "inner"
    /\ pos <= Len(permutation)
    /\ Square(gramian)
    /\ ~is_self(permutation[pos], i)
    /\ conflict(inner_product(gramian, current_weights, permutation[pos]))
    /\ gramian[permutation[pos]][permutation[pos]] = Whole(0)

\* the division by zero gives a non-finite coefficient
C2_DivisionDegenerates ==
    DividesByZero => ~IsFinite(current_weights'[permutation[pos]])

\* the other bodies of the inner loop keep finite coefficients finite
C2_ElseFinite ==
    (pc = "inner" /\ pc' = "inner" /\ AllFinite(current_weights) /\ ~DividesByZero)
        => AllFinite(current_weights')

\* a non-finite coefficient stays non-finite, in current_weights and in weights
C2_NonFiniteStays ==
    /\ (pc = "inner" /\ pc' = "inner") =>
          \A k \in 1..dimension : ~IsFinite(current_weights[k]) => ~IsFinite(current_weights'[k])
    /\ (pc = "inner" /\ pc' = "outer") =>
          /\ \A k \in 1..dimension :
                (~IsFinite(current_weights[k]) \/ ~IsFinite(weights[k])) => ~IsFinite(weights'[k])
          /\ (AllFinite(current_weights) /\ AllFinite(weights)) => AllFinite(weights')
    /\ (pc \in {"outer", "returned"}) => weights' = weights

\* C2, amended: a square Gramian never makes the code raise.  With a zero
\* diagonal entry gramian[j,j] the outcome is degenerate exactly when the
\* inner loop finds a conflict with such a j (inner_product < 0) and divides
\* by it: that coefficient becomes non-finite and component j of the returned
\* weights is non-finite; an execution without such a division keeps every
\* coefficient finite and returns an all-finite vector.
C2_DegenerateOnlyOnDivision ==
    /\ [](Square(gramian) => pc # "error")
    /\ [][C2_DivisionDegenerates]_vars
    /\ [][C2_ElseFinite]_vars
    /\ [][C2_NonFiniteStays]_vars

\* a division by a zero diagonal entry has made the returned weights non-finite
C2_Witness ==
    /\ Returned
    /\ Square(gramian)
    /\ ZeroDiag(gramian)
    /\ ~AllFinite(weights)

---------------------------------------------------------------------------
(* C4 *)

AbsVal(x) == <<Abs(x[1]), x[2]>>

\* the result the docstring gives for ExampleJ
ExampleResult == << Mk(5848, 10000), Mk(38012, 10000), Mk(38012, 10000) >>

\* C4: for J = [[-4, 1, 1], [6, 1, 1]] the aggregate weights @ J is within
\* 1e-3 of [0.5848, 3.8012, 3.8012] in every component, whatever
\* permutations are drawn.
C4_ExampleAggregate ==
    (pc = "aggregated" /\ matrix = ExampleJ) =>
        /\ Len(out) = 3
        /\ \A c \in 1..3 :
              /\ IsFinite(out[c])
              /\ Le(AbsVal(Sub(out[c], ExampleResult[c])), Mk(1, 1000))

\* the example has been aggregated
C4_Witness ==
    /\ pc = "aggregated"
    /\ matrix = ExampleJ
    /\ gramian = << <<Whole(18), Whole(-22)>>, <<Whole(-22), Whole(38)>> >>

---------------------------------------------------------------------------
(* C5 *)

\* the inner loop of the current outer iteration has finished
InnerLoopDone == pc = "inner" /\ pos > Len(permutation)

\* the index processed last by the inner loop, among those other than i
LastOther ==
    IF permutation[dimension] # i THEN permutation[dimension]
    ELSE permutation[dimension - 1]

\* C5: on a symmetric Gramian with strictly positive diagonal and N >= 2,
\* when the inner loop of an outer iteration finishes, the inner product of
\* the adjusted direction with the gradient processed last is >= 0.
C5_LastProcessedNoConflict ==
    (InnerLoopDone /\ dimension >= 2 /\ Symmetric(gramian) /\ PosDiag(gramian)) =>
        Ge0(Dot(gramian[LastOther], current_weights))

\* an inner loop over three gradients has finished after two corrections,
\* the second for the index processed last
C5_Witness ==
    /\ InnerLoopDone
    /\ dimension = 3
    /\ Symmetric(gramian)
    /\ PosDiag(gramian)
    /\ \A k \in 1..3 : current_weights[k] # Whole(0)
    /\ Dot(gramian[LastOther], current_weights) = Whole(0)

---------------------------------------------------------------------------
(* C8 *)

\* the vector-space algorithm the claim refers to (algorithm 1 of the paper)
VScale(c, v) == [k \in 1..Len(v) |-> Mul(c, v[k])]

VSub(u, v) == [k \in 1..Len(u) |-> Sub(u[k], v[k])]

\* v, with its component along g removed when <v, g> < 0
Project(v, g) ==
    IF Lt0(Dot(v, g)) THEN VSub(v, VScale(Div(Dot(v, g), Dot(g, g)), g)) ELSE v

RECURSIVE Surgery(_, _, _, _)
\* g_own after the projections for the first n indices of order, own skipped
Surgery(v, order, n, own) ==
    IF n = 0 THEN v
    ELSE IF order[n] = own THEN Surgery(v, order, n - 1, own)
    ELSE Project(Surgery(v, order, n - 1, own), matrix[order[n]])

\* a matrix was given and none of its rows is zero
NonZeroRows ==
    /\ matrix # None
    /\ \A k \in 1..Len(matrix) : Dot(matrix[k], matrix[k]) # Whole(0)

\* in the inner loop, current_weights @ matrix is the projected gradient so far
C8_InnerRefines ==
    (pc = "inner" /\ NonZeroRows) =>
        combine(current_weights, matrix) = Surgery(matrix[i], permutation, pos - 1, i)

\* weights @ matrix starts at zero and grows by the projected gradient g_i^{PC}
C8_SumRefines ==
    /\ (pc = "forward" /\ NonZeroRows) =>
          combine(weights', matrix) = [c \in 1..Len(matrix[1]) |-> Whole(0)]
    /\ (pc = "inner" /\ pc' = "outer" /\ NonZeroRows) =>
          combine(weights', matrix) =
              VAdd(combine(weights, matrix),
                   Surgery(matrix[i], permutation, Len(permutation), i))
    /\ (pc = "returned" /\ pc' = "aggregated") => out' = combine(weights, matrix)

\* C8: the computation on coefficients refines the algorithm on vectors: at
\* every point of outer iteration i, sum_k current_weights[k] * g_k is the
\* vector got from g_i by the projections for the indices processed so far,
\* and weights @ matrix is the sum of the projected gradients.
C8_Refinement == []C8_InnerRefines /\ [][C8_SumRefines]_vars

\* an inner loop over three non-zero gradients has finished after two corrections
C8_Witness ==
    /\ pc = "inner"
    /\ pos > Len(permutation)
    /\ NonZeroRows
    /\ Len(matrix) = 3
    /\ \A k \in 1..3 : current_weights[k] # Whole(0)
    /\ i = 3

---------------------------------------------------------------------------
(* C9 *)

\* the Gramian of the gradients (-1, -1), (-1, 0), (1, 0)
G9 ==
    << <<Whole(2), Whole(1), Whole(-1)>>,
       <<Whole(1), Whole(1), Whole(-1)>>,
       <<Whole(-1), Whole(-1), Whole(1)>> >>

\* C9: the result depends on the permutations drawn for N = 3: whatever
\* weights an execution returns for G9, other permutations return different ones.
C9_OrderSensitive ==
    (Returned /\ gramian = G9) =>
        /\ Symmetric(G9) /\ PosDiag(G9)
        /\ \E ps \in [1..3 -> Perms(3)] : compute_from_gramian(G9, ps) = weights
        /\ \E ps \in [1..3 -> Perms(3)] : compute_from_gramian(G9, ps) # weights

\* G9 has been weighted, with the result [1, 2, 3]
C9_Witness ==
    /\ Returned
    /\ gramian = G9
    /\ weights = <<Whole(1), Whole(2), Whole(3)>>

---------------------------------------------------------------------------
(* C10 *)

\* the indices the inner loop has processed so far
Processed == {permutation[k] : k \in 1..(pos - 1)}

WellFormed == Symmetric(gramian) /\ PosDiag(gramian)

\* in the inner loop: current_weights[i] = 1, the others are >= 0, and those
\* whose index is still to come are 0; the returned weights are >= 1
C10_Coefficients ==
    /\ (pc = "inner" /\ WellFormed) =>
          /\ current_weights[i] = Whole(1)
          /\ \A k \in 1..dimension : Ge0(current_weights[k])
          /\ \A k \in (1..dimension) \ (Processed \cup {i}) : current_weights[k] = Whole(0)
    /\ (Returned /\ WellFormed) =>
          \A k \in 1..dimension : Le(Whole(1), weights[k]) /\ IsFinite(weights[k])

\* a body of the inner loop writes no coefficient but the one of its index
C10_OneWrite ==
    (pc = "inner" /\ pc' = "inner" /\ WellFormed) =>
        \A k \in (1..dimension) \ {permutation[pos]} : current_weights'[k] = current_weights[k]

\* C10: on a symmetric Gramian with strictly positive diagonal, throughout
\* outer iteration i current_weights[i] stays 1 and every other coefficient
\* is written at most once (by the body of its own index, each index coming
\* once in the permutation) and stays >= 0; every returned weight is >= 1.
C10_CoefficientsBounded == []C10_Coefficients /\ [][C10_OneWrite]_vars

\* three gradients have been weighted after a correction; a weight exceeds 1
C10_Witness ==
    /\ Returned
    /\ WellFormed
    /\ dimension = 3
    /\ \E k \in 1..3 : weights[k] # Whole(1)

=============================================================================
